---------------------------- MODULE Spec2Model ----------------------------
(***************************************************************************)
(* A model of pixelcraft: the player controller of src/main.js (keys,     *)
(* applyMovement, checkCollision), the character model builder            *)
(* (createCharacterModel), the scene assembler (placeCharacters) with the *)
(* click handler, and the two /gamedata back ends of src/vite.config.js   *)
(* (the vite mock-backend middleware and the express server with its      *)
(* schema validation).                                                     *)
(*                                                                         *)
(* Each subsystem has its own specification (SpecPlayer, SpecBuilder,     *)
(* SpecScene, SpecServer) that holds the other subsystems' variables at   *)
(* their initial value.  SpecPlayer takes the result of the collision     *)
(* check as an input of the frame, so that it covers every scene;         *)
(* SpecCollide runs the player in assembled scenes and computes the       *)
(* collision check from their geometry.                                    *)
(***************************************************************************)
EXTENDS Integers, Sequences, FiniteSets, TLC

VARIABLES
    px, pz,        \* player.position.x / .z, in tenths of a world unit
    py,            \* player.position.y, an IEEE-754 double (see Double below)
    keys,          \* the keys object: forward / backward / left / right
    isMoving,      \* player.userData.isMoving
    collided,      \* what checkCollision returned in the latest frame
    modelDef,      \* the model definition createCharacterModel is called on
    group,         \* what createCharacterModel returned (NotBuilt before)
    characterModels, \* generatedModels.js: character name -> model definition
    roster,        \* the characters of the /gamedata response, in order
    scene,         \* the character objects added to the scene, in order
    placed,        \* how many of the three placeCharacters calls have run
    clicked,       \* what the latest click hit and what its handler logged
    disk,          \* data/: directory -> contents of its files, in readdir order
    program,       \* what was started: the vite dev server or the express server
    validateOnly,  \* args.includes('--validate')
    pc,            \* where the top-level script of the process stands
    exitCode,      \* the exit status of the process (Running while it lives)
    characters,    \* the const characters of the express server
    dimensions,    \* the const dimensions of the express server
    validateCalls, \* how many times validateData has been called
    errors,        \* the files console.error has named, in order
    examined,      \* the files the latest validateData applied a schema to
    returned,      \* what the latest validateData returned
    lastResponse   \* the latest response to GET /gamedata

playerVars == <<px, pz, py, keys, isMoving, collided>>

builderVars == <<modelDef, group>>

sceneVars == <<characterModels, roster, scene, placed, clicked>>

serverVars == <<disk, program, validateOnly, pc, exitCode, characters, dimensions,
                validateCalls, errors, examined, returned,
                   lastResponse>>

vars == <<px, pz, py, keys, isMoving, collided, modelDef, group,
          characterModels, roster, scene, placed, clicked,
          disk, program, validateOnly, pc, exitCode, characters, dimensions,
          validateCalls, errors, examined, returned,
                   lastResponse>>

(***************************************************************************)
(* IEEE-754 doubles, for the vertical coordinate.                          *)
(*                                                                         *)
(* Every double that player.position.y takes is an integer multiple of    *)
(* 2^-62 of absolute value at most 2.  A double is modelled as a sign and  *)
(* a magnitude in units of 2^-62, the magnitude held in three limbs of 21  *)
(* bits, least significant first, so that no intermediate result leaves    *)
(* the range of the model checker's integers.  DSub is the subtraction of  *)
(* two doubles as the hardware performs it: the exact difference, rounded  *)
(* to 53 significant bits, ties to even.                                   *)
(***************************************************************************)
LimbBase == 2^21

Limb(n) == n % LimbBase

Carry(n) == n \div LimbBase

\* the magnitude a < the magnitude b
MagLess(a, b) ==
    \/ a[3] < b[3]
    \/ a[3] = b[3] /\ a[2] < b[2]
    \/ a[3] = b[3] /\ a[2] = b[2] /\ a[1] < b[1]

\* a + b, exact (the top limb takes the carry)
MagAdd(a, b) ==
    LET s1 == a[1] + b[1]
        s2 == a[2] + b[2] + Carry(s1)
        s3 == a[3] + b[3] + Carry(s2)
    IN  <<Limb(s1), Limb(s2), s3>>

\* a - b, exact, for a >= b
MagSub(a, b) ==
    LET d1 == a[1] - b[1]
        b1 == IF d1 < 0 THEN 1 ELSE 0
        d2 == a[2] - b[2] - b1
        b2 == IF d2 < 0 THEN 1 ELSE 0
    IN  <<d1 + b1 * LimbBase, d2 + b2 * LimbBase, a[3] - b[3] - b2>>

\* The unit in the last place, in units of 2^-62, of a magnitude whose top
\* limb is h: 2^(e-52) for a value in [2^e, 2^(e+1)) units, 1 below 2^53.
RECURSIVE UlpOf(_)
UlpOf(h) == IF h < 2048 THEN 1 ELSE 2 * UlpOf(h \div 2)

\* Round an exact magnitude to 53 significant bits, ties to even.
RoundMag(m) ==
    LET ulp  == UlpOf(m[3])
        r    == m[1] % ulp
        q    == m[1] \div ulp
        up   == (2 * r > ulp) \/ (2 * r = ulp /\ q % 2 = 1)
        l1   == m[1] - r + (IF up THEN ulp ELSE 0)
        l2   == m[2] + Carry(l1)
    IN  <<Limb(l1), Limb(l2), m[3] + Carry(l2)>>

MagZero == <<0, 0, 0>>

Double(neg, m) == [neg |-> neg /\ m # MagZero, m |-> m]

\* a - b in double arithmetic
DSub(a, b) ==
    IF a.neg # b.neg
    THEN Double(a.neg, RoundMag(MagAdd(a.m, b.m)))
    ELSE IF MagLess(a.m, b.m)
         THEN Double(~a.neg, RoundMag(MagSub(b.m, a.m)))
         ELSE Double(a.neg, RoundMag(MagSub(a.m, b.m)))

\* a + b in double arithmetic
DAdd(a, b) == DSub(a, Double(~b.neg, b.m))

\* a < b
DLess(a, b) ==
    IF a.neg # b.neg THEN a.neg
    ELSE IF a.neg THEN MagLess(b.m, a.m) ELSE MagLess(a.m, b.m)

(***************************************************************************)
(* Player and environment setup (src/main.js 6-15).                        *)
(*                                                                         *)
(* The horizontal coordinates are counted in steps of playerSpeed, tenths  *)
(* of a world unit: Math.max and Math.min return one of their arguments,   *)
(* so the boundary check yields the bound itself whenever the sum passes   *)
(* it, whatever the rounding of the sum.  The vertical coordinate is kept  *)
(* as the double it is, because the gravity test compares it with 0.001.   *)
(***************************************************************************)
\* playerSpeed = 0.1 world units per frame: one tenth
playerSpeed == 1

\* gravity = 0.01, the double 0x1.47ae147ae147bp-7
gravity == Double(FALSE, <<1090520, 1593835, 10485>>)

\* groundLevel = 0
groundLevel == Double(FALSE, MagZero)

\* the literal 0.001 of the gravity test, the double 0x1.0624dd2f1a9fcp-10
epsilon == Double(FALSE, <<1157628, 1207959, 1048>>)

\* moveBounds, in tenths
xMin == -100
xMax == 100
zMin == -100
zMax == 100

\* playerInitialPosition = (0, 1, 0); 1.0 is 2^62 units
playerInitialX == 0
playerInitialY == Double(FALSE, <<0, 0, 2^20>>)
playerInitialZ == 0

Max(a, b) == IF a >= b THEN a ELSE b
Min(a, b) == IF a <= b THEN a ELSE b

(***************************************************************************)
(* Movement controls (src/main.js 195-214).                                *)
(***************************************************************************)
KeyNames == {"w", "s", "a", "d"}

keysInitial ==
    [forward |-> FALSE, backward |-> FALSE, left |-> FALSE, right |-> FALSE]

\* the assignments of one key handler: key k sets its flag to v
setKey(ks, k, v) ==
    [forward  |-> IF k = "w" THEN v ELSE ks.forward,
     backward |-> IF k = "s" THEN v ELSE ks.backward,
     left     |-> IF k = "a" THEN v ELSE ks.left,
     right    |-> IF k = "d" THEN v ELSE ks.right]

KeyDown(k) ==
    /\ keys' = setKey(keys, k, TRUE)
    /\ UNCHANGED <<px, pz, py, isMoving, collided>>
    /\ UNCHANGED <<builderVars, sceneVars, serverVars>>

KeyUp(k) ==
    /\ keys' = setKey(keys, k, FALSE)
    /\ UNCHANGED <<px, pz, py, isMoving, collided>>
    /\ UNCHANGED <<builderVars, sceneVars, serverVars>>

(***************************************************************************)
(* Movement and gravity (src/main.js 239-273).                             *)
(***************************************************************************)
moveX(ks) ==
    (IF ks.left THEN 0 - playerSpeed ELSE 0) + (IF ks.right THEN playerSpeed ELSE 0)

moveZForwardIsPositive(ks) ==
    (IF ks.forward THEN playerSpeed ELSE 0) + (IF ks.backward THEN 0 - playerSpeed ELSE 0)

moveZ(ks) ==
    (IF ks.forward THEN 0 - playerSpeed ELSE 0)
        + (IF ks.backward THEN playerSpeed ELSE 0)

clampUpperOnly(lo, hi, v) == Min(hi, v)

\* Math.max(lo, Math.min(hi, v))
clamp(lo, hi, v) == Max(lo, Min(hi, v))

\* newPosition after the boundary check
newPositionX(x, ks) == clamp(xMin, xMax, x + moveX(ks))
newPositionZ(z, ks) == clamp(zMin, zMax, z + moveZ(ks))

\* the gravity step on player.position.y
gravityStep(y) ==
    IF DLess(DAdd(groundLevel, epsilon), y) THEN DSub(y, gravity) ELSE groundLevel

isMovingNowIgnoresRight(ks) == ks.forward \/ ks.backward \/ ks.left

isMovingNow(ks) == ks.forward \/ ks.backward \/ ks.left \/ ks.right

\* the values of collided
NotChecked == "not checked"
Hit == "hit"
Clear == "clear"

\* a frame that rejects only the x displacement of a colliding move
applyMovementKeepsZ(hit) ==
    /\ px' = IF hit THEN px ELSE newPositionX(px, keys)
    /\ pz' = newPositionZ(pz, keys)
    /\ py' = gravityStep(py)
    /\ isMoving' = isMovingNow(keys)
    /\ collided' = IF hit THEN Hit ELSE Clear
    /\ UNCHANGED keys
    /\ UNCHANGED <<builderVars, sceneVars, serverVars>>

\* One call of applyMovement; hit is what checkCollision(newPosition) returns.
applyMovement(hit) ==
    /\ px' = IF hit THEN px ELSE newPositionX(px, keys)
    /\ pz' = IF hit THEN pz ELSE newPositionZ(pz, keys)
    /\ py' = gravityStep(py)
    /\ isMoving' = isMovingNow(keys)
    /\ collided' = IF hit THEN Hit ELSE Clear
    /\ UNCHANGED keys
    /\ UNCHANGED <<builderVars, sceneVars, serverVars>>

\* The part of the arena in which the model follows the player.  While the
\* player is in the air it is followed within MaxAirOff tenths of the spawn
\* point; once it rests on the ground it is followed within MaxOff tenths of
\* the two axes and of the four walls (which takes it to every wall and
\* every corner).
MaxAirOff == 2

MaxOff == 1

Abs(n) == IF n < 0 THEN 0 - n ELSE n

NearSpawn(x, z) == Abs(x) <= MaxAirOff /\ Abs(z) <= MaxAirOff

NearAxis(x, z) == Abs(x) <= MaxOff \/ Abs(z) <= MaxOff

NearWall(x, z) ==
    \/ x <= xMin + MaxOff
    \/ x >= xMax - MaxOff
    \/ z <= zMin + MaxOff
    \/ z >= zMax - MaxOff

InExplored(x, y, z) ==
    IF y = groundLevel THEN NearAxis(x, z) \/ NearWall(x, z) ELSE NearSpawn(x, z)

\* One animation frame.  checkCollision casts rays against whatever the
\* scene holds, so its result is an input of the frame.
animate ==
    \E hit \in BOOLEAN :
        /\ applyMovement(hit)
        /\ InExplored(px', py', pz')

(***************************************************************************)
(* The character model builder (src/main.js 53-93).                        *)
(*                                                                         *)
(* A model definition is a set of part names (names are unique within a   *)
(* character) and a list of welds.  The built model is the parent link of  *)
(* every part's mesh: another part, the root group, or none.               *)
(***************************************************************************)
PartNames == {"torso", "head", "arm"}

MaxWelds == 3

Root == "group"

NoParent == "none"

\* before createCharacterModel has returned
NotBuilt == [built |-> FALSE, parent |-> [p \in {} |-> NoParent]]

\* the model definition of a specification that builds nothing
NoDef == [parts |-> {}, welds |-> <<>>]

Weld(p0, p1) == [part0 |-> p0, part1 |-> p1]

\* THREE.Object3D.add: parent p takes child c.  Adding an object to itself is
\* refused (an error is logged); otherwise c leaves the parent it had.
addKeepsFirstParent(par, p, c) ==
    IF c = p \/ par[c] # NoParent THEN par ELSE [par EXCEPT ![c] = p]

add(par, p, c) == IF c = p THEN par ELSE [par EXCEPT ![c] = p]

\* the meshes just created: parts[p.name] = mesh, no mesh has a parent
createParts(def) == [p \in def.parts |-> NoParent]

\* the weld loop, from weld i on
RECURSIVE weldFrom(_, _, _)
weldFrom(def, par, i) ==
    IF i > Len(def.welds) THEN par
    ELSE LET w == def.welds[i]
         IN  weldFrom(def,
                      IF w.part0 \in DOMAIN par /\ w.part1 \in DOMAIN par
                      THEN add(par, w.part0, w.part1)
                      ELSE par,
                      i + 1)

weldedPartsOfPart0(def) == {def.welds[i].part0 : i \in DOMAIN def.welds}

\* new Set(modelDef.welds.map(w => w.part1))
weldedParts(def) == {def.welds[i].part1 : i \in DOMAIN def.welds}

\* the attach loop: every part that is not in weldedParts is added to the group
attachTopLevel(def, par) ==
    [p \in DOMAIN par |-> IF p \notin weldedParts(def) THEN Root ELSE par[p]]

\* createCharacterModel once the definition is found: the group it returns
createCharacterModel(def) ==
    [built |-> TRUE, parent |-> attachTopLevel(def, weldFrom(def, createParts(def), 1))]

\* the parts at most n parent links below node p
RECURSIVE below(_, _, _)
below(par, p, n) ==
    IF n = 0 THEN {}
    ELSE LET kids == {c \in DOMAIN par : par[c] = p}
         IN  kids \cup UNION {below(par, k, n - 1) : k \in kids}

\* the part meshes reachable from node p through parent-child links
descendants(par, p) == below(par, p, Cardinality(DOMAIN par))

RECURSIVE SeqsUpTo(_, _)
SeqsUpTo(S, n) ==
    IF n = 0 THEN {<<>>}
    ELSE LET shorter == SeqsUpTo(S, n - 1)
         IN  shorter \cup {Append(q, x) : q \in {r \in shorter : Len(r) = n - 1}, x \in S}

ModelDefs ==
    [parts : SUBSET PartNames \ {{}},
     welds : SeqsUpTo({Weld(p0, p1) : p0 \in PartNames, p1 \in PartNames}, MaxWelds)]

BuilderIdle == modelDef = NoDef /\ group = NotBuilt

Build ==
    /\ group = NotBuilt
    /\ group' = createCharacterModel(modelDef)
    /\ UNCHANGED modelDef
    /\ UNCHANGED <<playerVars, sceneVars, serverVars>>

(***************************************************************************)
(* The scene assembler (src/main.js 126-155).                              *)
(*                                                                         *)
(* Horizontal and vertical placement are in halves of a world unit.  Every *)
(* placed object remembers the roster entry (char) it was made for.        *)
(***************************************************************************)
CharNames == {"Bok", "Zed"}

Roles == {"ally", "enemy", "boss", "mini-boss", "villager"}

MaxRoster == 3

\* spacing = 1.5
spacing == 3

\* the startX of the three calls: -5, -1, 3
alliesStartX == -10
enemiesStartX == -2
bossesStartX == 6

\* position.y = 0.5
placedY == 1

\* the definition generatedModels.js holds for a character it knows
SampleDef == [parts |-> {"torso", "head"}, welds |-> <<Weld("torso", "head")>>]

\* createCharacterModel(name), lines 54-58: null without a definition
createCharacterModelByName(models, name) ==
    IF name \in DOMAIN models THEN createCharacterModel(models[name]) ELSE NotBuilt

\* characters.filter(c => c.role === ...), as the roster indices kept, in order
RECURSIVE filterFrom(_, _, _)
filterFrom(chars, wanted, k) ==
    IF k > Len(chars) THEN <<>>
    ELSE (IF chars[k].role \in wanted THEN <<k>> ELSE <<>>)
             \o filterFrom(chars, wanted, k + 1)

allies(chars) == filterFrom(chars, {"ally"}, 1)

enemies(chars) == filterFrom(chars, {"enemy"}, 1)

bossesWithoutMiniBoss(chars) == filterFrom(chars, {"boss"}, 1)

bosses(chars) == filterFrom(chars, {"boss", "mini-boss"}, 1)

\* the object one iteration of chars.forEach adds; i counts from 0
placeOne(models, char, src, startX, i) ==
    LET charModel == createCharacterModelByName(models, char.name)
    IN  [kind   |-> IF charModel.built THEN "model" ELSE "placeholder",
         parent |-> charModel.parent,
         x      |-> startX + i * spacing,
         y      |-> placedY,
         name   |-> char.name,
         src    |-> src]

\* placeCharacters(chars, startX): the objects it adds to the scene
placeCharacters(models, chars, bucket, startX) ==
    [n \in 1..Len(bucket) |-> placeOne(models, chars[bucket[n]], bucket[n], startX, n - 1)]

Characters == [name : CharNames, role : Roles]

Rosters == SeqsUpTo(Characters, MaxRoster)

ModelTables == {[n \in known |-> SampleDef] : known \in SUBSET CharNames}

\* what reading a property that was never set yields
Undefined == "undefined"

\* a mesh of the scene that no character owns: player, ground, marker
OtherMesh == "other"

NoClick == [on |-> 0, mesh |-> NoParent, reported |-> "nothing logged"]

SceneIdle ==
    /\ characterModels = [n \in {} |-> SampleDef]
    /\ roster = <<>>
    /\ scene = <<>>
    /\ placed = 0
    /\ clicked = NoClick

PlaceAllies ==
    /\ placed = 0
    /\ scene' = scene \o placeCharacters(characterModels, roster, allies(roster), alliesStartX)
    /\ placed' = 1
    /\ UNCHANGED <<characterModels, roster, clicked>>
    /\ UNCHANGED <<playerVars, builderVars, serverVars>>

PlaceEnemies ==
    /\ placed = 1
    /\ scene' = scene \o placeCharacters(characterModels, roster, enemies(roster), enemiesStartX)
    /\ placed' = 2
    /\ UNCHANGED <<characterModels, roster, clicked>>
    /\ UNCHANGED <<playerVars, builderVars, serverVars>>

PlaceBosses ==
    /\ placed = 2
    /\ scene' = scene \o placeCharacters(characterModels, roster, bosses(roster), bossesStartX)
    /\ placed' = 3
    /\ UNCHANGED <<characterModels, roster, clicked>>
    /\ UNCHANGED <<playerVars, builderVars, serverVars>>

\* The meshes of a placed object that a ray can intersect.  A placeholder
\* is one mesh, added to the scene itself (named Root here).  A built model
\* is a Group, which has no geometry of its own: the ray meets the part
\* meshes below it, which the recursive flag of intersectObjects reaches.
meshesOf(obj) ==
    IF obj.kind = "placeholder" THEN {Root} ELSE descendants(obj.parent, Root)

\* userData.name of a mesh of a placed object.  placeCharacters sets
\* userData on the object it adds to the scene; a part mesh keeps the
\* empty userData it was constructed with.
userDataName(obj, mesh) == IF mesh = Root THEN obj.name ELSE Undefined

\* The click handler, for a click whose ray meets at least one object;
\* intersects[0].object is the nearest mesh met, which the geometry of the
\* view decides.  A click that meets nothing logs nothing.
Click ==
    /\ placed = 3
    /\ \/ \E n \in DOMAIN scene : \E mesh \in meshesOf(scene[n]) :
              clicked' = [on |-> n, mesh |-> mesh,
                          reported |-> userDataName(scene[n], mesh)]
       \/ clicked' = [on |-> 0, mesh |-> OtherMesh, reported |-> Undefined]
    /\ UNCHANGED <<characterModels, roster, scene, placed>>
    /\ UNCHANGED <<playerVars, builderVars, serverVars>>

(***************************************************************************)
(* The collision check (src/main.js 217-236) against the scene.            *)
(*                                                                         *)
(* Horizontal lengths are in thousandths of a world unit, heights are      *)
(* doubles.  Every obstacle here is an axis-aligned box mesh with the      *)
(* default front-side material: a ray meets the face it enters through,    *)
(* edges included, and meets nothing of a box it starts inside.  The       *)
(* vertices of a geometry are stored as 32-bit floats: half of 0.5 is kept *)
(* exactly, half of 0.2 is kept as a value about 1.5e-9 above 0.1, which   *)
(* widens a marker by that much on every side (one thousandth stands for   *)
(* it horizontally, where it only decides comparisons with multiples of    *)
(* 0.05).  World matrices are first computed by the first render, after    *)
(* the first frame; in that frame every box still lies around the origin,  *)
(* below the height 1 at which the player is.                              *)
(***************************************************************************)
\* intersects[0].distance < 0.5
reach == 500

\* BoxGeometry(0.5, 0.5, 0.5): half an edge
placeholderHalf == 250

\* BoxGeometry(0.2, 0.2, 0.2): half an edge, with the float rounding
markerHalf == 101

\* the marker positions: x and z are +/-10
markerOff == 10000

\* 0.5 - 0.25 and 0.5 + 0.25
placeholderBottom == Double(FALSE, <<0, 0, 2^18>>)
placeholderTop == Double(FALSE, <<0, 0, 3 * 2^18>>)

\* 0.1 - float(0.1) and 0.1 + float(0.1)
markerBottom == Double(TRUE, <<1677696, 3276, 0>>)
markerTop == Double(FALSE, <<419456, 422707, 209715>>)

\* the player's x or z, from tenths
thousandths(tenths) == 100 * tenths

Box(cx, cz, half, bottom, top) ==
    [x1 |-> cx - half, x2 |-> cx + half, z1 |-> cz - half, z2 |-> cz + half,
     bottom |-> bottom, top |-> top]

\* the box of a placeholder mesh: position (x, 0.5, 0), x in halves of a unit
placeholderBox(obj) ==
    Box(500 * obj.x, 0, placeholderHalf, placeholderBottom, placeholderTop)

markerBoxes ==
    {Box(sx * markerOff, sz * markerOff, markerHalf, markerBottom, markerTop) :
        sx \in {-1, 1}, sz \in {-1, 1}}

\* The boxes intersectObjects(scene.children, true) can return once the
\* player and the ground are filtered out.  The parts of a built model
\* have the geometry generatedModels.js gives them; the scenes the
\* collision check is followed in hold placeholders only.
obstacles(sc) ==
    {placeholderBox(sc[n]) : n \in {k \in DOMAIN sc : sc[k].kind = "placeholder"}}
        \cup markerBoxes

directions == {<<1, 0>>, <<-1, 0>>, <<0, 1>>, <<0, -1>>}

DLessEq(a, b) == ~DLess(b, a)

\* the ray from (x, y, z) along dir meets box b at a distance below reach
meetsWithinReach(b, x, y, z, dir) ==
    /\ DLessEq(b.bottom, y) /\ DLessEq(y, b.top)
    /\ IF dir[1] # 0
       THEN /\ b.z1 <= z /\ z <= b.z2
            /\ IF dir[1] > 0 THEN x < b.x1 /\ b.x1 - x < reach
                              ELSE b.x2 < x /\ x - b.x2 < reach
       ELSE /\ b.x1 <= x /\ x <= b.x2
            /\ IF dir[2] > 0 THEN z < b.z1 /\ b.z1 - z < reach
                              ELSE b.z2 < z /\ z - b.z2 < reach

\* checkCollision(newPosition), x and z in tenths
checkCollision(sc, x, y, z) ==
    \E dir \in directions : \E b \in obstacles(sc) :
        meetsWithinReach(b, thousandths(x), y, thousandths(z), dir)

\* The stretch of the arena in which a frame among obstacles is followed:
\* MaxStrip tenths along x, MaxOff tenths along z, around the spawn point.
MaxStrip == 3

InStrip(x, z) == Abs(x) <= MaxStrip /\ Abs(z) <= MaxOff

\* One animation frame in an assembled scene.
animateInScene ==
    /\ applyMovement(checkCollision(scene, newPositionX(px, keys), py,
                                    newPositionZ(pz, keys)))
    /\ InStrip(px', pz')

\* rosters whose characters are placed within reach of the spawn point
MaxObstacles == 2

ObstacleRosters == SeqsUpTo([name : {"Zed"}, role : {"enemy"}], MaxObstacles)

\* the scene after the three placeCharacters calls
assembled(models, chars) ==
    placeCharacters(models, chars, allies(chars), alliesStartX)
        \o placeCharacters(models, chars, enemies(chars), enemiesStartX)
        \o placeCharacters(models, chars, bosses(chars), bossesStartX)

(***************************************************************************)
(* The /gamedata back ends (src/vite.config.js).                           *)
(*                                                                         *)
(* A file of data/ is modelled by what reading it yields: a document that  *)
(* satisfies its schema (in one of two versions), a document that violates *)
(* its schema, or text that JSON.parse rejects.  Other processes may       *)
(* rewrite a file at any time.                                             *)
(***************************************************************************)
Valid == {"valid", "valid, edited"}

Violating == "violates schema"

NotJson == "not JSON"

Contents == Valid \cup {Violating, NotJson}

\* the files of each directory, by their position in readdir's order
FilesOf ==
    [characters |-> {1, 2}, dimensions |-> {1}, crafting |-> {1}]

Dirs == {"characters", "dimensions", "crafting"}

Disks == [characters : [FilesOf.characters -> Contents],
          dimensions : [FilesOf.dimensions -> Contents],
          crafting   : [FilesOf.crafting -> Contents]]

Running == "running"

NotLoaded == <<"not loaded">>

NoResponse == [status |-> "none", characters |-> <<>>, dimensions |-> <<>>]

File(dir, n) == [dir |-> dir, n |-> n]

\* JSON.parse(fs.readFileSync(...)) throws on text that is not JSON
loadJSONThrows(d, f) == d[f.dir][f.n] = NotJson

\* ajv's validate(data): whether the document satisfies its schema
validate(d, f) == d[f.dir][f.n] \in Valid

\* the files validateData visits, in its order
validationOrder ==
    <<File("characters", 1), File("characters", 2),
      File("dimensions", 1), File("crafting", 1)>>

\* validateData from the i-th file on: [threw, allValid, errors, examined];
\* examined are the files validate was applied to
RECURSIVE validateFrom(_, _, _, _)
validateFrom(d, i, allValid, errs) ==
    IF i > Len(validationOrder)
    THEN [threw |-> FALSE, allValid |-> allValid, errors |-> errs,
          examined |-> validationOrder]
    ELSE LET f == validationOrder[i]
         IN  IF loadJSONThrows(d, f)
             THEN [threw |-> TRUE, allValid |-> allValid, errors |-> errs,
                   examined |-> SubSeq(validationOrder, 1, i - 1)]
             ELSE IF ~validate(d, f)
                  THEN validateFrom(d, i + 1, FALSE, Append(errs, f))
                  ELSE validateFrom(d, i + 1, allValid, errs)

validateData(d) == validateFrom(d, 1, TRUE, <<>>)

\* the values of returned: nothing while validateData has not been called
\* and when an exception left it
NothingReturned == "nothing"

returnValue(r) ==
    IF r.threw THEN NothingReturned ELSE IF r.allValid THEN "true" ELSE "false"

\* fs.readdirSync(dir).map(f => loadJSON(...)): [threw, docs]
loadDir(d, dir) ==
    [threw |-> \E n \in FilesOf[dir] : loadJSONThrows(d, File(dir, n)),
     docs  |-> [n \in FilesOf[dir] |-> d[dir][n]]]

exitStatusInverted(valid) == IF valid THEN 1 ELSE 0

\* validateData() ? 0 : 1
exitStatus(valid) == IF valid THEN 0 ELSE 1

\* an uncaught exception ends a node process with status 1
uncaughtExceptionStatus == 1

\* if (validateOnly) process.exit(validateData() ? 0 : 1)
RunValidateOnly ==
    /\ program = "express" /\ validateOnly /\ pc = "start"
    /\ LET r == validateData(disk)
       IN  /\ validateCalls' = validateCalls + 1
           /\ errors' = errors \o r.errors
           /\ examined' = r.examined
           /\ returned' = returnValue(r)
           /\ exitCode' = IF r.threw THEN uncaughtExceptionStatus ELSE exitStatus(r.allValid)
           /\ pc' = "exited"
    /\ UNCHANGED <<disk, program, validateOnly, characters, dimensions, lastResponse>>
    /\ UNCHANGED <<playerVars, builderVars, sceneVars>>

\* if (!validateData()) { ...; process.exit(1) }
ValidateBeforeServing ==
    /\ program = "express" /\ ~validateOnly /\ pc = "start"
    /\ LET r == validateData(disk)
       IN  /\ validateCalls' = validateCalls + 1
           /\ errors' = errors \o r.errors
           /\ examined' = r.examined
           /\ returned' = returnValue(r)
           /\ IF r.threw \/ ~r.allValid
              THEN pc' = "exited" /\ exitCode' = 1
              ELSE pc' = "validated" /\ UNCHANGED exitCode
    /\ UNCHANGED <<disk, program, validateOnly, characters, dimensions, lastResponse>>
    /\ UNCHANGED <<playerVars, builderVars, sceneVars>>

\* const characters = loadCharacters()
LoadCharacters ==
    /\ pc = "validated"
    /\ LET r == loadDir(disk, "characters")
       IN  IF r.threw
           THEN pc' = "exited" /\ exitCode' = uncaughtExceptionStatus /\ UNCHANGED characters
           ELSE pc' = "characters loaded" /\ characters' = r.docs /\ UNCHANGED exitCode
    /\ UNCHANGED <<disk, program, validateOnly, dimensions, validateCalls, errors, examined, returned,
                   lastResponse>>
    /\ UNCHANGED <<playerVars, builderVars, sceneVars>>

\* const dimensions = loadDimensions()
LoadDimensions ==
    /\ pc = "characters loaded"
    /\ LET r == loadDir(disk, "dimensions")
       IN  IF r.threw
           THEN pc' = "exited" /\ exitCode' = uncaughtExceptionStatus /\ UNCHANGED dimensions
           ELSE pc' = "loaded" /\ dimensions' = r.docs /\ UNCHANGED exitCode
    /\ UNCHANGED <<disk, program, validateOnly, characters, validateCalls, errors, examined, returned,
                   lastResponse>>
    /\ UNCHANGED <<playerVars, builderVars, sceneVars>>

\* app.get('/gamedata', ...) and app.listen(PORT, ...)
Listen ==
    /\ pc = "loaded"
    /\ pc' = "listening"
    /\ UNCHANGED <<disk, program, validateOnly, exitCode, characters, dimensions,
                   validateCalls, errors, examined, returned,
                   lastResponse>>
    /\ UNCHANGED <<playerVars, builderVars, sceneVars>>

\* the express handler: res.json({characters, dimensions})
GetGamedata ==
    /\ program = "express" /\ pc = "listening"
    /\ lastResponse' = [status |-> "ok", characters |-> characters, dimensions |-> dimensions]
    /\ UNCHANGED <<disk, program, validateOnly, pc, exitCode, characters, dimensions,
                   validateCalls, errors, examined, returned>>
    /\ UNCHANGED <<playerVars, builderVars, sceneVars>>

\* the vite plugin: configureServer registers the /gamedata middleware
ConfigureServer ==
    /\ program = "vite" /\ pc = "start"
    /\ pc' = "listening"
    /\ UNCHANGED <<disk, program, validateOnly, exitCode, characters, dimensions,
                   validateCalls, errors, examined, returned,
                   lastResponse>>
    /\ UNCHANGED <<playerVars, builderVars, sceneVars>>

\* the mock-backend middleware: reads both directories on every request; a
\* throw inside a middleware is answered with an error status
MockGamedata ==
    /\ program = "vite" /\ pc = "listening"
    /\ LET cs == loadDir(disk, "characters")
           ds == loadDir(disk, "dimensions")
       IN  lastResponse' =
               IF cs.threw \/ ds.threw
               THEN [status |-> "error", characters |-> <<>>, dimensions |-> <<>>]
               ELSE [status |-> "ok", characters |-> cs.docs, dimensions |-> ds.docs]
    /\ UNCHANGED <<disk, program, validateOnly, pc, exitCode, characters, dimensions,
                   validateCalls, errors, examined, returned>>
    /\ UNCHANGED <<playerVars, builderVars, sceneVars>>

\* another process rewrites one file of data/
EditFile ==
    /\ \E dir \in Dirs : \E n \in FilesOf[dir] : \E c \in Contents :
          /\ c # disk[dir][n]
          /\ disk' = [disk EXCEPT ![dir][n] = c]
    /\ UNCHANGED <<program, validateOnly, pc, exitCode, characters, dimensions,
                   validateCalls, errors, examined, returned,
                   lastResponse>>
    /\ UNCHANGED <<playerVars, builderVars, sceneVars>>

ServerIdle ==
    /\ disk = [dir \in Dirs |-> [n \in FilesOf[dir] |-> "valid"]]
    /\ program = "none"
    /\ validateOnly = FALSE
    /\ pc = "start"
    /\ exitCode = Running
    /\ characters = NotLoaded
    /\ dimensions = NotLoaded
    /\ validateCalls = 0
    /\ errors = <<>>
    /\ examined = <<>>
    /\ returned = NothingReturned
    /\ lastResponse = NoResponse

PlayerCreated ==
    /\ px = playerInitialX
    /\ py = playerInitialY
    /\ pz = playerInitialZ
    /\ keys = keysInitial
    /\ isMoving = FALSE
    /\ collided = NotChecked

InitPlayer == PlayerCreated /\ BuilderIdle /\ SceneIdle /\ ServerIdle

NextPlayer ==
    \/ \E k \in KeyNames : KeyDown(k)
    \/ \E k \in KeyNames : KeyUp(k)
    \/ animate

SpecPlayer == InitPlayer /\ [][NextPlayer]_vars

InitBuilder ==
    /\ PlayerCreated /\ SceneIdle /\ ServerIdle
    /\ modelDef \in ModelDefs
    /\ group = NotBuilt

NextBuilder == Build

SpecBuilder == InitBuilder /\ [][NextBuilder]_vars

InitScene ==
    /\ PlayerCreated /\ BuilderIdle /\ ServerIdle
    /\ characterModels \in ModelTables
    /\ roster \in Rosters
    /\ scene = <<>>
    /\ placed = 0
    /\ clicked = NoClick

NextScene == PlaceAllies \/ PlaceEnemies \/ PlaceBosses \/ Click

SpecScene == InitScene /\ [][NextScene]_vars

InitCollide ==
    /\ PlayerCreated /\ BuilderIdle /\ ServerIdle
    /\ characterModels = [n \in {} |-> SampleDef]
    /\ roster \in ObstacleRosters
    /\ scene = assembled(characterModels, roster)
    /\ placed = 3
    /\ clicked = NoClick

NextCollide ==
    \/ \E k \in KeyNames : KeyDown(k)
    \/ \E k \in KeyNames : KeyUp(k)
    \/ animateInScene

SpecCollide == InitCollide /\ [][NextCollide]_vars

InitServer ==
    /\ PlayerCreated /\ BuilderIdle /\ SceneIdle
    /\ disk \in Disks
    /\ \/ program = "vite" /\ validateOnly = FALSE
       \/ program = "express" /\ validateOnly \in BOOLEAN
    /\ pc = "start"
    /\ exitCode = Running
    /\ characters = NotLoaded
    /\ dimensions = NotLoaded
    /\ validateCalls = 0
    /\ errors = <<>>
    /\ examined = <<>>
    /\ returned = NothingReturned
    /\ lastResponse = NoResponse

NextServer ==
    \/ RunValidateOnly
    \/ ValidateBeforeServing
    \/ LoadCharacters
    \/ LoadDimensions
    \/ Listen
    \/ GetGamedata
    \/ ConfigureServer
    \/ MockGamedata
    \/ EditFile

SpecServer == InitServer /\ [][NextServer]_vars

(***************************************************************************)
(* C1: at the end of every frame the player is inside the arena:          *)
(* xMin <= x <= xMax and zMin <= z <= zMax, whatever keys are held and     *)
(* whether or not the collision check rejected the move.                   *)
(***************************************************************************)
C1_InsideArena == xMin <= px /\ px <= xMax /\ zMin <= pz /\ pz <= zMax

\* the player pressed into a corner, both clamps having acted
C1_Witness ==
    /\ px = xMax /\ pz = zMin
    /\ keys.right /\ keys.forward /\ isMoving
    /\ py = groundLevel

(***************************************************************************)
(* C2: the vertical position is never below groundLevel and never greater *)
(* than at the end of the previous frame.                                  *)
(***************************************************************************)
C2_NeverBelowNeverRising ==
    /\ [](~DLess(py, groundLevel))
    /\ [][~DLess(py, py')]_vars

(***************************************************************************)
(* Vocabulary of the builder claims, stated on the document itself.        *)
(***************************************************************************)
\* both names of weld i name parts of the document
BothExist(def, i) ==
    def.welds[i].part0 \in def.parts /\ def.welds[i].part1 \in def.parts

\* weld i is between two existing, different parts
Effective(def, i) ==
    BothExist(def, i) /\ def.welds[i].part0 # def.welds[i].part1

\* p is the part1 of some weld
AppearsAsPart1(def, p) == \E i \in DOMAIN def.welds : def.welds[i].part1 = p

\* the document without its weld i
WithoutWeld(def, i) ==
    [parts |-> def.parts,
     welds |-> SubSeq(def.welds, 1, i - 1) \o SubSeq(def.welds, i + 1, Len(def.welds))]

(***************************************************************************)
(* C3: the group returned by createCharacterModel has exactly as many     *)
(* descendant part meshes as the document has parts, for any weld list.    *)
(***************************************************************************)
C3_AsManyDescendantsAsParts ==
    group.built =>
        Cardinality(descendants(group.parent, Root)) = Cardinality(modelDef.parts)

(***************************************************************************)
(* C4, as claimed: for every weld (p0, p1) whose two names exist, p1 is a  *)
(* descendant of p0 and not a direct child of the root.                    *)
(***************************************************************************)
C4_EveryWeldHolds ==
    group.built =>
        \A i \in DOMAIN modelDef.welds :
            BothExist(modelDef, i) =>
                LET w == modelDef.welds[i]
                IN  /\ w.part1 \in descendants(group.parent, w.part0)
                    /\ group.parent[w.part1] # Root

(***************************************************************************)
(* C4, amended: for every weld (p0, p1) whose two names exist, p1 is not a *)
(* direct child of the root; and if p0 # p1 and no later weld between two  *)
(* existing, different parts names p1 as part1 (the last weld wins), p1 is *)
(* a descendant of p0.                                                     *)
(***************************************************************************)
C4_LastWeldWins ==
    group.built =>
        \A i \in DOMAIN modelDef.welds :
            BothExist(modelDef, i) =>
                LET w == modelDef.welds[i]
                    last == \A j \in DOMAIN modelDef.welds :
                                j > i /\ Effective(modelDef, j)
                                    => modelDef.welds[j].part1 # w.part1
                IN  /\ group.parent[w.part1] # Root
                    /\ (Effective(modelDef, i) /\ last)
                           => w.part1 \in descendants(group.parent, w.part0)

\* a part welded to two different existing parents, hanging under the later
C4_Witness ==
    /\ group.built
    /\ \E i, j \in DOMAIN modelDef.welds :
          /\ i < j
          /\ Effective(modelDef, i) /\ Effective(modelDef, j)
          /\ modelDef.welds[i].part1 = modelDef.welds[j].part1
          /\ modelDef.welds[i].part0 # modelDef.welds[j].part0
          /\ group.parent[modelDef.welds[j].part1] = modelDef.welds[j].part0

(***************************************************************************)
(* C5: a weld that names a nonexistent part is a no-op: the model is the   *)
(* one built from the document without that weld.                          *)
(***************************************************************************)
C5_DanglingWeldIsNoOp ==
    group.built =>
        \A i \in DOMAIN modelDef.welds :
            ~BothExist(modelDef, i)
                => group = createCharacterModel(WithoutWeld(modelDef, i))

AllSatisfy(d) == \A dir \in Dirs : \A n \in FilesOf[dir] : d[dir][n] \in Valid

\* a validation pass has run and reported nothing
ValidationPassed == validateCalls > 0 /\ errors = <<>>

ResponseDocs ==
    {lastResponse.characters[n] : n \in DOMAIN lastResponse.characters}
        \cup {lastResponse.dimensions[n] : n \in DOMAIN lastResponse.dimensions}

(***************************************************************************)
(* C7: no /gamedata response carries a document that violates its schema,  *)
(* the endpoint answers only after a validation pass found every document  *)
(* valid, and a validation that finds a violation ends the process with    *)
(* status 1 before it listens.                                             *)
(***************************************************************************)
C7_ServesOnlyValidatedData ==
    /\ Violating \notin ResponseDocs
    /\ lastResponse # NoResponse => ValidationPassed
    /\ errors # <<>> => pc = "exited" /\ exitCode = 1

(***************************************************************************)
(* C8: started with --validate, the process calls validateData exactly     *)
(* once and exits with status 0 if every document satisfies its schema and *)
(* with status 1 otherwise; it never loads the documents for serving,      *)
(* never registers the route, never listens and never answers.             *)
(***************************************************************************)
C8_ValidateOnlyMode ==
    /\ []((program = "express" /\ validateOnly) =>
            /\ pc \in {"start", "exited"}
            /\ pc = "start" => validateCalls = 0 /\ exitCode = Running
            /\ pc = "exited" => validateCalls = 1 /\ exitCode \in {0, 1}
            /\ characters = NotLoaded
            /\ dimensions = NotLoaded
            /\ lastResponse = NoResponse)
    /\ [][(program = "express" /\ validateOnly /\ pc = "start" /\ pc' = "exited") =>
            (exitCode' = 0 <=> AllSatisfy(disk))]_vars

\* a --validate run that reported two violating documents and exited with 1
C8_Witness ==
    /\ program = "express" /\ validateOnly
    /\ pc = "exited" /\ exitCode = 1
    /\ validateCalls = 1
    /\ Len(errors) = 2

(***************************************************************************)
(* C9: the documents are loaded once and reused: whatever happens to the   *)
(* files, every /gamedata response carries the payload of the first one.   *)
(***************************************************************************)
C9_EveryResponseCarriesTheSamePayload ==
    [][lastResponse # NoResponse => lastResponse' = lastResponse]_vars

(***************************************************************************)
(* Vocabulary of the placement claim, stated on the roster itself.         *)
(***************************************************************************)
RowOf(role) ==
    CASE role = "ally" -> "allies"
      [] role = "enemy" -> "enemies"
      [] role \in {"boss", "mini-boss"} -> "bosses"
      [] OTHER -> "none"

\* -5, -1 and 3, in halves
RowStartX(row) ==
    CASE row = "allies" -> -10
      [] row = "enemies" -> -2
      [] row = "bosses" -> 6

\* the number of earlier roster entries of the same row
IndexInRow(k) ==
    Cardinality({j \in 1..(k - 1) : RowOf(roster[j].role) = RowOf(roster[k].role)})

ObjectsOf(k) == {n \in DOMAIN scene : scene[n].src = k}

(***************************************************************************)
(* C10: once the three rows are placed, every ally, enemy, boss and        *)
(* mini-boss of the roster is in the scene exactly once, as a built model  *)
(* if a definition exists and a placeholder otherwise, at                  *)
(* x = startX + i * 1.5, y = 0.5, tagged with its name; a character of any *)
(* other role is not in the scene.                                         *)
(***************************************************************************)
C10_EveryCharacterPlacedOnceInItsRow ==
    placed = 3 =>
        /\ \A n \in DOMAIN scene : scene[n].src \in DOMAIN roster
        /\ \A k \in DOMAIN roster :
              IF RowOf(roster[k].role) = "none"
              THEN ObjectsOf(k) = {}
              ELSE /\ Cardinality(ObjectsOf(k)) = 1
                   /\ \A n \in ObjectsOf(k) :
                         /\ scene[n].x = RowStartX(RowOf(roster[k].role)) + IndexInRow(k) * 3
                         /\ scene[n].y = 1
                         /\ scene[n].name = roster[k].name
                         /\ scene[n].kind = IF roster[k].name \in DOMAIN characterModels
                                            THEN "model" ELSE "placeholder"

\* a boss and a mini-boss share the third row, after a character that is
\* not placed; one is a built model, the other a placeholder
C10_Witness ==
    /\ placed = 3
    /\ Len(roster) = 3
    /\ roster[1].role = "villager"
    /\ roster[2].role = "mini-boss"
    /\ roster[3].role = "boss"
    /\ \E m, n \in DOMAIN scene :
          /\ scene[m].src = 2 /\ scene[m].x = 6 /\ scene[m].kind = "model"
          /\ scene[n].src = 3 /\ scene[n].x = 9 /\ scene[n].kind = "placeholder"

(***************************************************************************)
(* C11: a click whose nearest intersected object is a placed character,   *)
(* or a part primitive inside one, makes the handler report that          *)
(* character's name, for a built hierarchical model as for a placeholder  *)
(* mesh.                                                                   *)
(***************************************************************************)
C11_ClickReportsTheCharactersName ==
    clicked.on > 0 => clicked.reported = roster[scene[clicked.on].src].name

(***************************************************************************)
(* The player's frame, stated from the keys held: every held key adds its *)
(* direction (forward -z, backward +z, left -x, right +x).                 *)
(***************************************************************************)
\* A step that leaves the keys as they were is a frame: a key handler
\* changes nothing but the keys.
Frame == keys' = keys

HeldX == (IF keys.right THEN 1 ELSE 0) - (IF keys.left THEN 1 ELSE 0)

HeldZ == (IF keys.backward THEN 1 ELSE 0) - (IF keys.forward THEN 1 ELSE 0)

IntoArena(lo, hi, v) == IF v < lo THEN lo ELSE IF v > hi THEN hi ELSE v

OnlyHeld(held) ==
    /\ keys.forward = ("forward" \in held)
    /\ keys.backward = ("backward" \in held)
    /\ keys.left = ("left" \in held)
    /\ keys.right = ("right" \in held)

\* the double 0.99
ninetyNineHundredths == Double(FALSE, <<1006592, 503316, 1038090>>)

(***************************************************************************)
(* C12: a frame in which the collision check finds no obstacle moves the  *)
(* player to its old position plus playerSpeed times the sum of the held  *)
(* direction vectors, clamped to the arena, and lowers it by the gravity  *)
(* step when it is above the ground; forward and left held for one frame  *)
(* from (0, 1, 0) yield (-0.1, 0.99, -0.1) with isMoving true.             *)
(***************************************************************************)
C12_FreeFrame ==
    [][(Frame /\ collided' = Clear) =>
          /\ px' = IntoArena(xMin, xMax, px + playerSpeed * HeldX)
          /\ pz' = IntoArena(zMin, zMax, pz + playerSpeed * HeldZ)
          /\ DLess(groundLevel, py) => py' = DSub(py, gravity)
          /\ (/\ px = playerInitialX /\ pz = playerInitialZ /\ py = playerInitialY
              /\ OnlyHeld({"forward", "left"}))
               => /\ px' = -1 /\ pz' = -1
                  /\ py' = ninetyNineHundredths
                  /\ isMoving']_vars

C12_Witness ==
    /\ px = -1 /\ pz = -1
    /\ py = ninetyNineHundredths
    /\ isMoving
    /\ OnlyHeld({"forward", "left"})

\* the position a frame tries: the old one moved by the held keys, clamped
CandidateX == IntoArena(xMin, xMax, px + playerSpeed * HeldX)

CandidateZ == IntoArena(zMin, zMax, pz + playerSpeed * HeldZ)

AnyHeld == \E k \in {"forward", "backward", "left", "right"} : keys[k]

(***************************************************************************)
(* C13: collision handling is all-or-nothing.  In a frame in which        *)
(* checkCollision reports a hit for the candidate position, x and z both  *)
(* stay as they were, even if the displacement along one axis alone would *)
(* not collide; the gravity step and the isMoving update are applied all  *)
(* the same.                                                               *)
(***************************************************************************)
C13_CollisionRejectsTheWholeMove ==
    [][(Frame /\ collided' = Hit)
          => /\ px' = px
             /\ pz' = pz
             /\ py' = gravityStep(py)
             /\ isMoving' = AnyHeld]_vars

\* a diagonal move was refused although one of its two displacements alone
\* would have been let through
C13_Witness ==
    /\ collided = Hit
    /\ isMoving
    /\ HeldX # 0 /\ HeldZ # 0
    /\ CandidateX # px /\ CandidateZ # pz
    /\ checkCollision(scene, CandidateX, py, CandidateZ)
    /\ \/ ~checkCollision(scene, CandidateX, py, pz)
       \/ ~checkCollision(scene, px, py, CandidateZ)

(***************************************************************************)
(* C14: after every frame, whatever key events came between the frames,   *)
(* isMoving is true exactly when at least one of the four direction keys  *)
(* is held at the time of that frame, whether or not the position         *)
(* changed.                                                                *)
(***************************************************************************)
C14_MovingIffAKeyIsHeld == [][Frame => (isMoving' = AnyHeld)]_vars

\* moving, with left and right held against each other, at the spawn column
C14_Witness ==
    /\ isMoving
    /\ collided = Clear
    /\ OnlyHeld({"left", "right"})
    /\ px = playerInitialX /\ pz = playerInitialZ
    /\ py # playerInitialY

(***************************************************************************)
(* C15: from a position without collision, the position the player holds  *)
(* at the end of every frame (x and z after the move decision, y after    *)
(* the gravity step) is one for which checkCollision reports no           *)
(* collision.                                                              *)
(***************************************************************************)
C15_NeverInACollidingPosition == ~checkCollision(scene, px, py, pz)

(***************************************************************************)
(* C16: validation is not fail-fast.  validateData examines every         *)
(* character, dimension and crafting document even after an earlier one   *)
(* has failed, reports one error entry naming the file for each document  *)
(* that violates its schema, and returns true exactly when no document    *)
(* violated its schema.  A file that is not JSON holds no document: it    *)
(* is counted neither as examined nor as violating.                       *)
(***************************************************************************)
Documents(d) == SelectSeq(validationOrder, LAMBDA f : d[f.dir][f.n] # NotJson)

ViolatingDocuments(d) == SelectSeq(validationOrder, LAMBDA f : d[f.dir][f.n] = Violating)

C16_ExaminesAndReportsEveryDocument ==
    [][validateCalls' = validateCalls + 1
          => /\ examined' = Documents(disk)
             /\ errors' = errors \o ViolatingDocuments(disk)
             /\ returned' = IF ViolatingDocuments(disk) = <<>> THEN "true"
                                                               ELSE "false"]_vars

=============================================================================
